---- MODULE Spec2Model ----
(***************************************************************************)
(* Model of the HR record-keeping application: the bulk salary adjustment  *)
(* (SalaryAdjustments.handleSubmit), the employee search                   *)
(* (EmployeeSearch.handleSearch) and the pay reports (Reports), each       *)
(* talking to the record store through awaited requests.                   *)
(*                                                                         *)
(* Units.  Money is kept in cents (the store columns are NUMERIC(12,2)).   *)
(* The percentage field is kept in tenths of a percent (the input has      *)
(* step="0.1"), the salary range fields in whole dollars (step="1000").    *)
(* Arithmetic is exact; the double rounding error of the JavaScript        *)
(* product is not modelled.                                                *)
(***************************************************************************)
EXTENDS Integers, Sequences, FiniteSets, TLC

\* ------------------------------------------------------------------ bounds
\* How many times the salary form is submitted in one behaviour.
MaxSubmits == 2

\* ------------------------------------------------------------ the store
EmpIds == {1, 2, 3}

\* The salary column (in cents, by emp_id) the employees table may hold when
\* the screen opens, over the values 0.40, 58000.00, 104999.00 and 105000.00.
SalaryTables ==
  {<<40, 40, 40>>,
   <<40, 5800000, 10499900>>,
   <<5800000, 10499900, 10500000>>,
   <<10500000, 10500000, 10500000>>}

\* Values typed into the form: percentage in tenths of a percent
\* (0 and 3.2), range limits in dollars.
PercentValues == {0, 32}
MinValues == {0, 58000}
MaxValues == {1000, 105000}

\* useState(''): an empty form field.
Blank == -1

\* No result shown (useState(null), setResult(null)).
NoResult == [affected |-> -1, message |-> "none"]

VARIABLES
  salary,        \* employees.salary in the store, by emp_id (cents)
  percentage,    \* SalaryAdjustments form state
  minSalary,
  maxSalary,
  salLoading,    \* SalaryAdjustments.loading
  salResult,     \* SalaryAdjustments.result
  salPc,         \* where handleSubmit stands: "idle", "select", "update"
  salLocals,     \* handleSubmit's locals: percentageIncrease, minSal, maxSal, updates, next index
  salInflight,   \* store requests of the salary screen that have not returned
  salIssued,     \* history: requests issued by the current handleSubmit, in order
  salReturned,   \* history: requests returned to the current handleSubmit, in order
  salary0,       \* history: the store's salaries when the current handleSubmit started
  salSubmits,    \* number of submissions so far
  salAttached,   \* whether the component that started handleSubmit is still mounted
  salOutcome,    \* history: the result the last handleSubmit passed to setResult
  activeTab,     \* App.activeTab: the screen that is mounted
  searchTerm,    \* EmployeeSearch form state: a string, as a sequence of characters
  searchType,
  results,       \* EmployeeSearch.results: the emp_ids of the rows displayed
  srchLoading,   \* EmployeeSearch.loading
  srchInflight,  \* the queries of the search screen that have not returned
  srchEvent,     \* history: how the last query of the search screen ended
  srchAsked,     \* history: the last query that returned rows
  tz,            \* the browser's time zone: local time minus UTC, in hours
  job_title,     \* employees.job_title in the store, by emp_id
  division,      \* employees.division in the store, by emp_id
  activeReport,  \* Reports state
  selectedMonth,
  repEmployees,  \* Reports.employees: the emp_ids displayed
  payStatements, \* Reports.payStatements: the statement ids displayed
  payByJobTitle,
  payByDivision,
  repLoading,    \* Reports.loading
  repFetches,    \* the fetch calls of the reports screen that have not finished
  repStarted,    \* number of fetch calls started
  repEvent,      \* history: how the last fetch that finished ended
  repTitleSrc,   \* history: month and rows of the fetch that set payByJobTitle
  repDivisionSrc, \* history: month and rows of the fetch that set payByDivision
  repReturned,   \* history: the reports of which a fetch has ended since the mount
  repFailed      \* history: a fetch has ended in its catch block since the mount

salVars == <<salary, percentage, minSalary, maxSalary, salLoading, salResult,
             salPc, salLocals, salInflight, salIssued, salReturned, salary0,
             salSubmits, salAttached, salOutcome>>

srchVars == <<searchTerm, searchType, results, srchLoading, srchInflight,
              srchEvent, srchAsked>>

repVars == <<tz, job_title, division, activeReport, selectedMonth, repEmployees,
             payStatements, payByJobTitle, payByDivision, repLoading, repFetches,
             repStarted, repEvent, repTitleSrc, repDivisionSrc, repReturned,
             repFailed>>

vars == <<salVars, activeTab, srchVars, repVars>>

\* ------------------------------------------------- sequences and helpers
Range(s) == {s[i] : i \in DOMAIN s}

\* All orderings of a finite set, as sequences without repetition.
Perms(S) == {s \in [1..Cardinality(S) -> S] : Range(s) = S}

\* --------------------------------------------- bulk salary adjustment
\* .gte('salary', minSal).lt('salary', maxSal): s is in cents, the limits in dollars.
InRangeInclusiveMax(s, minSal, maxSal) == s >= minSal * 100 /\ s <= maxSal * 100
InRange(s, minSal, maxSal) == s >= minSal * 100 /\ s < maxSal * 100

\* Math.round(emp.salary * (1 + percentageIncrease)) in dollars, for a salary of
\* s cents and a percentage of p tenths of a percent: floor(x + 1/2) with
\* x = s * (1000 + p) / 100000.  The product is split so that it stays within
\* TLC's integers.
NewSalaryTruncated(s, p) ==
  LET m == 1000 + p
  IN  (s \div 100000) * m + (((s % 100000) * m) \div 100000)
NewSalary(s, p) ==
  LET m == 1000 + p
  IN  (s \div 100000) * m + (((s % 100000) * m + 50000) \div 100000)

\* employees.map(emp => ({emp_id, salary: Math.round(...)})) over the selected rows.
Updates(employees, p) ==
  [i \in DOMAIN employees |->
     [emp_id |-> employees[i].emp_id, salary |-> NewSalary(employees[i].salary, p)]]

SelectReq == [op |-> "select", emp_id |-> 0, salary |-> 0]
UpdateReq(u) == [op |-> "update", emp_id |-> u.emp_id, salary |-> u.salary]

\* The requests handleSubmit sends when it enters the loop body at index i:
\* one awaited update.
LoopRequestsAllAtOnce(updates, i) == {UpdateReq(updates[j]) : j \in i..Len(updates)}
LoopRequests(updates, i) == {UpdateReq(updates[i])}

\* if (error) throw error
ThrowsNever(error) == FALSE
Throws(error) == error

\* if (!employees || employees.length === 0)
NoEmployees(employees) == Len(employees) = 0

\* The three results handleSubmit can set.
NoneFoundResult == [affected |-> 0, message |-> "No employees found"]
SuccessResult(employees) == [affected |-> Len(employees), message |-> "Successfully updated"]
ErrorResult == [affected |-> 0, message |-> "Error updating salaries"]

NoLocals == [percentageIncrease |-> 0, minSal |-> 0, maxSal |-> 0,
             employees |-> <<>>, updates |-> <<>>, i |-> 0]

SalaryInit ==
  /\ salary \in SalaryTables
  /\ percentage = Blank
  /\ minSalary = Blank
  /\ maxSalary = Blank
  /\ salLoading = FALSE
  /\ salResult = NoResult
  /\ salPc = "idle"
  /\ salLocals = NoLocals
  /\ salInflight = {}
  /\ salIssued = <<>>
  /\ salReturned = <<>>
  /\ salary0 = salary
  /\ salSubmits = 0
  /\ salAttached = FALSE
  /\ salOutcome = NoResult

\* onChange handlers of the three inputs.
SetPercentage ==
  /\ activeTab = "salary"
  /\ \E v \in PercentValues : percentage' = v
  /\ UNCHANGED <<salary, minSalary, maxSalary, salLoading, salResult, salPc,
                 salLocals, salInflight, salIssued, salReturned, salary0, salSubmits,
                 salAttached, salOutcome>>

SetMinSalary ==
  /\ activeTab = "salary"
  /\ \E v \in MinValues : minSalary' = v
  /\ UNCHANGED <<salary, percentage, maxSalary, salLoading, salResult, salPc,
                 salLocals, salInflight, salIssued, salReturned, salary0, salSubmits,
                 salAttached, salOutcome>>

SetMaxSalary ==
  /\ activeTab = "salary"
  /\ \E v \in MaxValues : maxSalary' = v
  /\ UNCHANGED <<salary, percentage, minSalary, salLoading, salResult, salPc,
                 salLocals, salInflight, salIssued, salReturned, salary0, salSubmits,
                 salAttached, salOutcome>>

\* handleSubmit up to its first await.  The submit button is disabled while
\* loading and the three inputs are required.  One handleSubmit runs at a
\* time: a submission from a reopened screen while the handleSubmit of the
\* closed one is still running is not explored.
HandleSubmit ==
  /\ activeTab = "salary"
  /\ ~salLoading
  /\ salPc = "idle"
  /\ salSubmits < MaxSubmits
  /\ percentage # Blank /\ minSalary # Blank /\ maxSalary # Blank
  /\ salLoading' = TRUE
  /\ salResult' = NoResult
  /\ salLocals' = [NoLocals EXCEPT !.percentageIncrease = percentage,
                                   !.minSal = minSalary, !.maxSal = maxSalary]
  /\ salInflight' = salInflight \cup {SelectReq}
  /\ salIssued' = <<SelectReq>>
  /\ salReturned' = <<>>
  /\ salary0' = salary
  /\ salPc' = "select"
  /\ salSubmits' = salSubmits + 1
  /\ salAttached' = TRUE
  /\ salOutcome' = NoResult
  /\ UNCHANGED <<salary, percentage, minSalary, maxSalary>>

\* The end of handleSubmit: setResult(r), the form reset if asked for, and
\* setLoading(false) in finally.  State set on a component that has been
\* unmounted is dropped.
SetResult(r, resetForm) ==
  /\ salOutcome' = r
  /\ salPc' = "idle"
  /\ IF salAttached
       THEN /\ salResult' = r
            /\ salLoading' = FALSE
            /\ IF resetForm
                 THEN percentage' = Blank /\ minSalary' = Blank /\ maxSalary' = Blank
                 ELSE UNCHANGED <<percentage, minSalary, maxSalary>>
       ELSE UNCHANGED <<salResult, salLoading, percentage, minSalary, maxSalary>>

\* catch + finally of handleSubmit.
SalaryCatch == SetResult(ErrorResult, FALSE)

\* setResult(success), the form reset, finally.
SalaryFinish(employees) == SetResult(SuccessResult(employees), TRUE)

\* for (const update of updates) at index i, up to the next await: the update
\* of updates[i] is sent, or, past the last one, handleSubmit sets its result.
\* pending is what stays in flight.
Loop(employees, updates, i, pending) ==
  IF i <= Len(updates)
    THEN LET sent == LoopRequests(updates, i)
         IN  /\ salLocals' = [salLocals EXCEPT !.employees = employees,
                                               !.updates = updates, !.i = i]
             /\ salInflight' = pending \cup sent
             /\ salIssued' = salIssued \o (CHOOSE s \in Perms(sent) : TRUE)
             /\ salPc' = "update"
             /\ UNCHANGED <<salLoading, salResult, percentage, minSalary, maxSalary,
                            salOutcome>>
    ELSE /\ SalaryFinish(employees)
         /\ salInflight' = pending
         /\ UNCHANGED <<salLocals, salIssued>>

\* The select returns with fetchError (and no rows).
SelectFails ==
  /\ salPc = "select"
  /\ SelectReq \in salInflight
  /\ salInflight' = salInflight \ {SelectReq}
  /\ salReturned' = Append(salReturned, [req |-> SelectReq, ok |-> FALSE])
  /\ IF Throws(TRUE)
       THEN SalaryCatch
       ELSE SetResult(NoneFoundResult, FALSE)
  /\ UNCHANGED <<salary, salLocals, salIssued, salary0, salSubmits, salAttached>>

\* The select returns the rows in range, in an order the store chooses;
\* handleSubmit runs on to its next await or to its end.
SelectReturns ==
  /\ salPc = "select"
  /\ SelectReq \in salInflight
  /\ \E order \in Perms({e \in EmpIds : InRange(salary[e], salLocals.minSal, salLocals.maxSal)}) :
       LET employees == [i \in DOMAIN order |-> [emp_id |-> order[i], salary |-> salary[order[i]]]]
       IN  /\ salReturned' = Append(salReturned, [req |-> SelectReq, ok |-> TRUE])
           /\ IF NoEmployees(employees)
                THEN /\ SetResult(NoneFoundResult, FALSE)
                     /\ salInflight' = salInflight \ {SelectReq}
                     /\ UNCHANGED <<salLocals, salIssued>>
                ELSE Loop(employees, Updates(employees, salLocals.percentageIncrease), 1,
                          salInflight \ {SelectReq})
  /\ UNCHANGED <<salary, salary0, salSubmits, salAttached>>

\* The awaited update of updates[i] returns without error: the store has
\* written the row; the loop goes on.
UpdateReturns ==
  /\ salPc = "update"
  /\ LET u == salLocals.updates[salLocals.i]
     IN  /\ UpdateReq(u) \in salInflight
         /\ salary' = [salary EXCEPT ![u.emp_id] = u.salary * 100]
         /\ salReturned' = Append(salReturned, [req |-> UpdateReq(u), ok |-> TRUE])
         /\ Loop(salLocals.employees, salLocals.updates, salLocals.i + 1,
                 salInflight \ {UpdateReq(u)})
  /\ UNCHANGED <<salary0, salSubmits, salAttached>>

\* The awaited update of updates[i] returns an error: the store has not
\* written the row.
UpdateFails ==
  /\ salPc = "update"
  /\ LET u == salLocals.updates[salLocals.i]
     IN  /\ UpdateReq(u) \in salInflight
         /\ salReturned' = Append(salReturned, [req |-> UpdateReq(u), ok |-> FALSE])
         /\ IF Throws(TRUE)
              THEN /\ SalaryCatch
                   /\ salInflight' = salInflight \ {UpdateReq(u)}
                   /\ UNCHANGED <<salLocals, salIssued>>
              ELSE Loop(salLocals.employees, salLocals.updates, salLocals.i + 1,
                        salInflight \ {UpdateReq(u)})
  /\ UNCHANGED <<salary, salary0, salSubmits, salAttached>>

\* ------------------------------------------------------- employee search
\* The terms typed into the search box: strings as sequences of characters
\* (letters of both cases, a digit, a space, and the characters % _ and ,).
Terms ==
  {<<>>, <<" ">>, <<"a">>, <<"A">>, <<"n">>, <<"a", "n">>, <<"n", "a">>, <<"N", "A">>,
   <<"_">>, <<"%">>, <<",">>, <<"a", "_">>, <<"1">>, <<"1", "a">>, <<" ", "1">>}

\* first_name, last_name and ssn of the employees table, by emp_id.
first_name == (1 :> <<"A", "n">>) @@ (2 :> <<"a", "_">>) @@ (3 :> <<"n">>)
last_name == (1 :> <<"n", "a">>) @@ (2 :> <<"1", "%">>) @@ (3 :> <<"n", ",", "a">>)
ssn == (1 :> <<"1">>) @@ (2 :> <<"1", "1">>) @@ (3 :> <<"a">>)

SearchTypes == {"name", "ssn", "empid"}

\* String.prototype.trim() leaves nothing: the term is made of spaces only.
IsBlank(s) == \A i \in DOMAIN s : s[i] = " "

\* Case folding of ILIKE.
Lower(c) == IF c = "A" THEN "a" ELSE IF c = "N" THEN "n" ELSE c

Tail2(s, i) == SubSeq(s, i, Len(s))

\* The store's ILIKE: s matches pattern pat, where % stands for any run of
\* characters, _ for any one character, and letters compare without case.
RECURSIVE ILike(_, _)
ILike(s, pat) ==
  IF Len(pat) = 0 THEN Len(s) = 0
  ELSE IF Head(pat) = "%"
    THEN \E i \in 1..(Len(s) + 1) : ILike(Tail2(s, i), Tail(pat))
  ELSE IF Len(s) = 0 THEN FALSE
  ELSE IF Head(pat) = "_" THEN ILike(Tail(s), Tail(pat))
  ELSE Lower(Head(pat)) = Lower(Head(s)) /\ ILike(Tail(s), Tail(pat))

\* `%${searchTerm}%`
NamePattern(term) == <<"%">> \o term \o <<"%">>

\* query.or(`first_name.ilike.%${searchTerm}%,last_name.ilike.%${searchTerm}%`):
\* the store splits the or-list at commas, so a comma in the term leaves a
\* piece that is no filter and the request is refused.
OrFilterRefused(term) == \E i \in DOMAIN term : term[i] = ","

Digits == ("1" :> 1)

\* parseInt(searchTerm): leading spaces skipped, then the digits up to the
\* first other character; NaN (-1 here) when there is none.
RECURSIVE ParseDigits(_, _)
ParseDigits(s, acc) ==
  IF Len(s) = 0 \/ Head(s) \notin DOMAIN Digits THEN acc
  ELSE ParseDigits(Tail(s), 10 * acc + Digits[Head(s)])

parseIntOrZero(s) ==
  IF \E i \in DOMAIN s : s[i] \in DOMAIN Digits /\ \A j \in 1..(i - 1) : s[j] = " "
    THEN ParseDigits(SelectSeq(s, LAMBDA c : c # " "), 0)
    ELSE 0
RECURSIVE parseInt(_)
parseInt(s) ==
  IF Len(s) = 0 THEN -1
  ELSE IF Head(s) = " " THEN parseInt(Tail(s))
  ELSE IF Head(s) \in DOMAIN Digits THEN ParseDigits(s, 0)
  ELSE -1

\* The store refuses the query: an or-list that does not parse, or
\* emp_id=eq.NaN, which is no integer.
QueryRefused(q) ==
  \/ q.type = "name" /\ OrFilterRefused(q.term)
  \/ q.type = "empid" /\ parseInt(q.term) = -1

\* query.eq('ssn', searchTerm): the store's equality of two strings.
SsnEqIgnoringCase(value, term) ==
  Len(value) = Len(term) /\ \A i \in DOMAIN value : Lower(value[i]) = Lower(term[i])
SsnEq(value, term) == value = term

\* The rows the store returns for a query that it accepts.
QueryRows(q) ==
  IF q.type = "name"
    THEN {e \in EmpIds : \/ ILike(first_name[e], NamePattern(q.term))
                         \/ ILike(last_name[e], NamePattern(q.term))}
  ELSE IF q.type = "ssn"
    THEN {e \in EmpIds : SsnEq(ssn[e], q.term)}
  ELSE {e \in EmpIds : e = parseInt(q.term)}

NoQuery == [type |-> "none", term |-> <<>>]

SearchInit ==
  /\ searchTerm = <<>>
  /\ searchType = "name"
  /\ results = {}
  /\ srchLoading = FALSE
  /\ srchInflight = {}
  /\ srchEvent = "none"
  /\ srchAsked = NoQuery

\* onChange of the term input and of the type select.
SetSearchTerm ==
  /\ activeTab = "search"
  /\ \E term \in Terms : searchTerm' = term
  /\ UNCHANGED <<searchType, results, srchLoading, srchInflight, srchEvent, srchAsked>>

SetSearchType ==
  /\ activeTab = "search"
  /\ \E type \in SearchTypes : searchType' = type
  /\ UNCHANGED <<searchTerm, results, srchLoading, srchInflight, srchEvent, srchAsked>>

\* handleSearch up to its await.  The submit button is disabled while loading;
\* a blank term returns at once.
HandleSearch ==
  /\ activeTab = "search"
  /\ ~srchLoading
  /\ ~IsBlank(searchTerm)
  /\ srchLoading' = TRUE
  /\ srchInflight' = srchInflight \cup {[type |-> searchType, term |-> searchTerm]}
  /\ UNCHANGED <<searchTerm, searchType, results, srchEvent, srchAsked>>

\* The query returns rows: setResults(data || []), finally.
SearchReturns ==
  /\ \E q \in srchInflight :
       /\ ~QueryRefused(q)
       /\ results' = QueryRows(q)
       /\ srchInflight' = srchInflight \ {q}
       /\ srchAsked' = q
  /\ srchLoading' = FALSE
  /\ srchEvent' = "rows"
  /\ UNCHANGED <<searchTerm, searchType>>

\* What the catch block leaves displayed: it only logs.
ResultsAfterCatchCleared(shown) == {}
ResultsAfterCatch(shown) == shown

\* The query returns an error (refused, or the store unreachable): catch, finally.
SearchFails ==
  /\ \E q \in srchInflight : srchInflight' = srchInflight \ {q}
  /\ results' = ResultsAfterCatch(results)
  /\ srchLoading' = FALSE
  /\ srchEvent' = "error"
  /\ UNCHANGED <<searchTerm, searchType, srchAsked>>

\* ------------------------------------------------------------ pay reports
\* How many fetch calls the reports screen starts in one behaviour.
MaxFetches == 3

\* Calendar.  Days are counted from 2023-12-01 (day 0), instants in hours from
\* 2023-12-01T00:00Z.  Months are numbered from 2023-12 (month 0); FirstDay
\* covers 2023-11 to 2024-04.
FirstDay == (-1 :> -30) @@ (0 :> 0) @@ (1 :> 31) @@ (2 :> 62) @@ (3 :> 91) @@ (4 :> 122)
LastDay(m) == FirstDay[m + 1] - 1
MonthOfDay(d) == CHOOSE m \in -1..3 : FirstDay[m] <= d /\ d <= LastDay(m)

\* The months the month input is set to: 2024-01 and 2024-02.
Months == {1, 2}
\* new Date().toISOString().slice(0, 7): the month the screen opens with.
CurrentMonth == 1

\* Time zones of the browser: UTC-5, UTC, UTC+2.
TimeZones == {-5, 0, 2}

\* floor(t / 24) for an instant t, which may lie before the epoch.
DayOf(t) == IF t >= 0 THEN t \div 24 ELSE -((23 - t) \div 24)

\* new Date(selectedMonth + '-01'): midnight UTC of the month's first day.
StartDate(m) == FirstDay[m] * 24

\* new Date(startDate.getFullYear(), startDate.getMonth() + 1, 0): local
\* midnight of the last day of the month that startDate falls in, in local time.
EndDate(m, zone) == LastDay(MonthOfDay(DayOf(StartDate(m) + zone))) * 24 - zone

\* The DATE the store compares a column with, given date.toISOString(): the
\* UTC calendar day of the instant.
ISODate(t) == DayOf(t)

\* pay_statements rows of the store: id, emp_id, pay_period_start,
\* pay_period_end (days), gross_pay (cents).
PayRows ==
  << [id |-> 1, emp_id |-> 1, pay_period_start |-> 31, pay_period_end |-> 45, gross_pay |-> 288462],
     [id |-> 2, emp_id |-> 1, pay_period_start |-> 46, pay_period_end |-> 61, gross_pay |-> 288462],
     [id |-> 3, emp_id |-> 2, pay_period_start |-> 31, pay_period_end |-> 45, gross_pay |-> 261538],
     [id |-> 4, emp_id |-> 3, pay_period_start |-> 46, pay_period_end |-> 61, gross_pay |-> 200000],
     [id |-> 5, emp_id |-> 3, pay_period_start |-> 50, pay_period_end |-> 66, gross_pay |-> 150000],
     [id |-> 6, emp_id |-> 2, pay_period_start |-> 62, pay_period_end |-> 76, gross_pay |-> 261538],
     [id |-> 7, emp_id |-> 2, pay_period_start |-> 15, pay_period_end |-> 30, gross_pay |-> 250000] >>

\* job_title and division values of the employees table.
TitleChoices ==
  {(1 :> "Engineer") @@ (2 :> "Manager") @@ (3 :> "Engineer"),
   (1 :> "Engineer") @@ (2 :> "Engineer") @@ (3 :> "Engineer"),
   (1 :> "Manager") @@ (2 :> "constructor") @@ (3 :> "Engineer")}
DivisionChoices ==
  {(1 :> "Sales") @@ (2 :> "Sales") @@ (3 :> "Finance"),
   (1 :> "constructor") @@ (2 :> "Sales") @@ (3 :> "constructor"),
   (1 :> "10") @@ (2 :> "7") @@ (3 :> "Sales")}

\* Keys for which acc[key] of a fresh {} is already truthy: properties
\* inherited from Object.prototype.
InheritedKeys == {"constructor", "toString", "valueOf", "hasOwnProperty"}

\* Keys that are canonical array indices: Object.entries lists them first, in
\* ascending numeric order.
IndexKeys == ("7" :> 7) @@ ("10" :> 10)

\* .gte('pay_period_start', startDate.toISOString())
\* .lte('pay_period_end', endDate.toISOString()), rows in table order.
PeriodRows(m, zone) ==
  SelectSeq(PayRows, LAMBDA r : /\ r.pay_period_start >= ISODate(StartDate(m))
                                /\ r.pay_period_end <= ISODate(EndDate(m, zone)))

\* An object used as a map: its own keys in insertion order, and their values.
EmptyObject == [keys |-> <<>>, val |-> <<>>]

IndexOf(seq, x) == CHOOSE i \in DOMAIN seq : seq[i] = x

\* One step of the reduce: if (!acc[key]) acc[key] = {total: 0, count: 0};
\* acc[key].total += gross; acc[key].count += 1.  For an inherited key acc[key]
\* is the inherited object, which takes the additions; acc gets no own key.
ReduceStep(acc, key, gross) ==
  IF key \in Range(acc.keys)
    THEN LET i == IndexOf(acc.keys, key)
         IN  [acc EXCEPT !.val[i] = [total |-> @.total + gross, count |-> @.count + 1]]
  ELSE IF key \in InheritedKeys
    THEN acc
  ELSE [keys |-> Append(acc.keys, key),
        val |-> Append(acc.val, [total |-> gross, count |-> 1])]

\* (data || []).reduce(..., {}) over the rows, keyed by keyOf[row.emp_id].
RECURSIVE Reduce(_, _, _)
Reduce(rows, keyOf, acc) ==
  IF Len(rows) = 0 THEN acc
  ELSE Reduce(Tail(rows), keyOf,
              ReduceStep(acc, keyOf[Head(rows).emp_id], Head(rows).gross_pay))

\* The positions of obj.keys in the order Object.entries lists them: index
\* keys ascending, then the other keys in insertion order.
RECURSIVE SortIndexKeys(_)
SortIndexKeys(S) ==
  IF S = {} THEN <<>>
  ELSE LET k == CHOOSE x \in S : \A y \in S : IndexKeys[x] <= IndexKeys[y]
       IN  <<k>> \o SortIndexKeys(S \ {k})

EntriesOrderInsertion(obj) == obj.keys
EntriesOrder(obj) ==
  SortIndexKeys({k \in Range(obj.keys) : k \in DOMAIN IndexKeys}) \o
  SelectSeq(obj.keys, LAMBDA k : k \notin DOMAIN IndexKeys)

\* Object.entries(grouped).map(([key, data]) => ({key, total_pay, employee_count}))
Entries(obj) ==
  LET order == EntriesOrder(obj)
  IN  [n \in DOMAIN order |->
         [key |-> order[n],
          total_pay |-> obj.val[IndexOf(obj.keys, order[n])].total,
          employee_count |-> obj.val[IndexOf(obj.keys, order[n])].count]]

Aggregate(rows, keyOf) == Entries(Reduce(rows, keyOf, EmptyObject))

NoSrc == [month |-> -1, rows |-> <<>>]

ReportsInit ==
  /\ activeReport = "employee-pay"
  /\ selectedMonth = CurrentMonth
  /\ repEmployees = {}
  /\ payStatements = {}
  /\ payByJobTitle = <<>>
  /\ payByDivision = <<>>
  /\ repLoading = FALSE
  /\ repFetches = {}
  /\ repStarted = 0
  /\ repEvent = "none"
  /\ repTitleSrc = NoSrc
  /\ repDivisionSrc = NoSrc
  /\ repReturned = {}
  /\ repFailed = FALSE

\* The fetch call the effect makes for a report and month: setLoading(true)
\* and the first request.  step counts the awaits passed; empError keeps the
\* first answer of fetchEmployeesWithPay.
NewFetch(report, month) ==
  [id |-> repStarted + 1, kind |-> report, month |-> month, step |-> 1, empError |-> FALSE]

\* useEffect(..., [activeReport, selectedMonth]) after a render with the given
\* values.
Effect(report, month) ==
  /\ repFetches' = repFetches \cup {NewFetch(report, month)}
  /\ repStarted' = repStarted + 1
  /\ repLoading' = TRUE

\* The first run of the effect, when the screen is mounted.
ReportsMount ==
  /\ activeTab = "reports"
  /\ repStarted = 0
  /\ Effect(activeReport, selectedMonth)
  /\ UNCHANGED <<tz, job_title, division, activeReport, selectedMonth, repEmployees,
                 payStatements, payByJobTitle, payByDivision, repEvent, repTitleSrc,
                 repDivisionSrc, repReturned,
                 repFailed>>

\* onClick of a report tab button: setActiveReport(id), then the effect.
SetActiveReport ==
  /\ activeTab = "reports"
  /\ repStarted > 0
  /\ repStarted < MaxFetches
  /\ \E id \in {"employee-pay", "pay-by-title", "pay-by-division"} :
       /\ id # activeReport
       /\ activeReport' = id
       /\ Effect(id, selectedMonth)
  /\ UNCHANGED <<tz, job_title, division, selectedMonth, repEmployees, payStatements,
                 payByJobTitle, payByDivision, repEvent, repTitleSrc, repDivisionSrc, repReturned,
                 repFailed>>

\* onChange of the month input, shown on the two aggregate reports:
\* setSelectedMonth(value), then the effect.
SetSelectedMonth ==
  /\ activeTab = "reports"
  /\ repStarted > 0
  /\ repStarted < MaxFetches
  /\ activeReport \in {"pay-by-title", "pay-by-division"}
  /\ \E m \in Months :
       /\ m # selectedMonth
       /\ selectedMonth' = m
       /\ Effect(activeReport, m)
  /\ UNCHANGED <<tz, job_title, division, activeReport, repEmployees, payStatements,
                 payByJobTitle, payByDivision, repEvent, repTitleSrc, repDivisionSrc, repReturned,
                 repFailed>>

\* fetchEmployeesWithPay: the employees select returns (with or without
\* error); the pay_statements select is sent.
EmployeesSelectReturns ==
  /\ \E f \in repFetches :
       /\ f.kind = "employee-pay" /\ f.step = 1
       /\ \E err \in BOOLEAN :
            repFetches' = (repFetches \ {f}) \cup {[f EXCEPT !.step = 2, !.empError = err]}
  /\ UNCHANGED <<tz, job_title, division, activeReport, selectedMonth, repEmployees,
                 payStatements, payByJobTitle, payByDivision, repLoading, repStarted,
                 repEvent, repTitleSrc, repDivisionSrc, repReturned,
                 repFailed>>

\* fetchEmployeesWithPay: the pay_statements select returns; both answers are
\* good: setEmployees, setPayStatements, finally.
EmployeePayReturns ==
  /\ \E f \in repFetches :
       /\ f.kind = "employee-pay" /\ f.step = 2 /\ ~f.empError
       /\ repFetches' = repFetches \ {f}
  /\ repEmployees' = EmpIds
  /\ payStatements' = {PayRows[i].id : i \in DOMAIN PayRows}
  /\ repLoading' = FALSE
  /\ repEvent' = "rows"
  /\ repReturned' = repReturned \cup {"employee-pay"}
  /\ UNCHANGED repFailed
  /\ UNCHANGED <<tz, job_title, division, activeReport, selectedMonth, payByJobTitle,
                 payByDivision, repStarted, repTitleSrc, repDivisionSrc>>

\* fetchEmployeesWithPay: the pay_statements select returns and one of the two
\* answers is an error: catch, finally.
EmployeePayFails ==
  /\ \E f \in repFetches :
       /\ f.kind = "employee-pay" /\ f.step = 2
       /\ repFetches' = repFetches \ {f}
  /\ repLoading' = FALSE
  /\ repEvent' = "error"
  /\ repReturned' = repReturned \cup {"employee-pay"}
  /\ repFailed' = TRUE
  /\ UNCHANGED <<tz, job_title, division, activeReport, selectedMonth, repEmployees,
                 payStatements, payByJobTitle, payByDivision, repStarted, repTitleSrc,
                 repDivisionSrc>>

\* fetchPayByJobTitle: the select returns rows: reduce, setPayByJobTitle, finally.
PayByJobTitleReturns ==
  /\ \E f \in repFetches :
       /\ f.kind = "pay-by-title"
       /\ repFetches' = repFetches \ {f}
       /\ LET rows == PeriodRows(f.month, tz)
          IN  /\ payByJobTitle' = Aggregate(rows, job_title)
              /\ repTitleSrc' = [month |-> f.month, rows |-> rows]
  /\ repLoading' = FALSE
  /\ repEvent' = "rows"
  /\ repReturned' = repReturned \cup {"pay-by-title"}
  /\ UNCHANGED repFailed
  /\ UNCHANGED <<tz, job_title, division, activeReport, selectedMonth, repEmployees,
                 payStatements, payByDivision, repStarted, repDivisionSrc>>

\* fetchPayByDivision: the select returns rows: reduce, setPayByDivision, finally.
PayByDivisionReturns ==
  /\ \E f \in repFetches :
       /\ f.kind = "pay-by-division"
       /\ repFetches' = repFetches \ {f}
       /\ LET rows == PeriodRows(f.month, tz)
          IN  /\ payByDivision' = Aggregate(rows, division)
              /\ repDivisionSrc' = [month |-> f.month, rows |-> rows]
  /\ repLoading' = FALSE
  /\ repEvent' = "rows"
  /\ repReturned' = repReturned \cup {"pay-by-division"}
  /\ UNCHANGED repFailed
  /\ UNCHANGED <<tz, job_title, division, activeReport, selectedMonth, repEmployees,
                 payStatements, payByJobTitle, repStarted, repTitleSrc>>

\* What the catch blocks of the two aggregate fetches leave displayed: they
\* only log.
GroupsAfterCatchCleared(shown) == <<>>
GroupsAfterCatch(shown) == shown

\* fetchPayByJobTitle or fetchPayByDivision: the select returns an error:
\* catch, finally.
AggregateFails ==
  /\ \E f \in repFetches :
       /\ f.kind \in {"pay-by-title", "pay-by-division"}
       /\ repFetches' = repFetches \ {f}
       /\ repReturned' = repReturned \cup {f.kind}
  /\ payByJobTitle' = GroupsAfterCatch(payByJobTitle)
  /\ payByDivision' = GroupsAfterCatch(payByDivision)
  /\ repLoading' = FALSE
  /\ repEvent' = "error"
  /\ repFailed' = TRUE
  /\ UNCHANGED <<tz, job_title, division, activeReport, selectedMonth, repEmployees,
                 payStatements, repStarted, repTitleSrc, repDivisionSrc>>

\* ---------------------------------------------------------------- the app
\* What becomes of a running handleSubmit when its component is unmounted: the
\* async function is not cancelled and goes on from where it stands.
UnmountedPcAborted(pc) == "idle"
UnmountedPc(pc) == pc

\* The tabs reached from a tab in the behaviours explored: the salary screen
\* is left for the employee directory and opened again from there; a run that
\* opens the search or the reports screen stays on it.
Destinations(tab) ==
  CASE tab = "salary" -> {"employees"}
    [] tab = "employees" -> {"salary"}
    [] OTHER -> {}

\* Navigation onClick -> App.setActiveTab(id): renderContent unmounts the
\* component of the old tab, whose state is lost, and mounts the component of
\* the new tab with its initial state.  Answers to the queries of an unmounted
\* search or reports screen set state on nothing and are left out.
OnTabChange ==
  /\ \E id \in Destinations(activeTab) : activeTab' = id
  /\ percentage' = Blank
  /\ minSalary' = Blank
  /\ maxSalary' = Blank
  /\ salLoading' = FALSE
  /\ salResult' = NoResult
  /\ salAttached' = FALSE
  /\ salPc' = UnmountedPc(salPc)
  /\ searchTerm' = <<>>
  /\ searchType' = "name"
  /\ results' = {}
  /\ srchLoading' = FALSE
  /\ srchInflight' = {}
  /\ srchEvent' = "none"
  /\ srchAsked' = NoQuery
  /\ activeReport' = "employee-pay"
  /\ selectedMonth' = CurrentMonth
  /\ repEmployees' = {}
  /\ payStatements' = {}
  /\ payByJobTitle' = <<>>
  /\ payByDivision' = <<>>
  /\ repLoading' = FALSE
  /\ repFetches' = {}
  /\ repStarted' = 0
  /\ repEvent' = "none"
  /\ repTitleSrc' = NoSrc
  /\ repDivisionSrc' = NoSrc
  /\ repReturned' = {}
  /\ repFailed' = FALSE
  /\ UNCHANGED <<salary, salLocals, salInflight, salIssued, salReturned, salary0,
                 salSubmits, salOutcome, tz, job_title, division>>

\* Values of the store columns a screen does not read, while that screen is
\* the one explored.
SeedSalary == (1 :> 5800000) @@ (2 :> 10499900) @@ (3 :> 10500000)
SeedTitles == (1 :> "Engineer") @@ (2 :> "Manager") @@ (3 :> "Engineer")
SeedDivisions == (1 :> "Sales") @@ (2 :> "Sales") @@ (3 :> "Finance")

\* The app with one of its screens opened (App.renderContent mounts the
\* component of activeTab, with its initial state) over a store.
Init ==
  /\ activeTab \in {"search", "salary", "reports"}
  /\ SalaryInit
  /\ SearchInit
  /\ ReportsInit
  /\ activeTab # "salary" => salary = SeedSalary
  /\ IF activeTab = "reports"
       THEN /\ tz \in TimeZones
            /\ job_title \in TitleChoices
            /\ division \in DivisionChoices
       ELSE /\ tz = 0
            /\ job_title = SeedTitles
            /\ division = SeedDivisions

Next ==
  \/ SetPercentage /\ UNCHANGED <<activeTab, srchVars, repVars>>
  \/ SetMinSalary /\ UNCHANGED <<activeTab, srchVars, repVars>>
  \/ SetMaxSalary /\ UNCHANGED <<activeTab, srchVars, repVars>>
  \/ HandleSubmit /\ UNCHANGED <<activeTab, srchVars, repVars>>
  \/ SelectFails /\ UNCHANGED <<activeTab, srchVars, repVars>>
  \/ SelectReturns /\ UNCHANGED <<activeTab, srchVars, repVars>>
  \/ UpdateReturns /\ UNCHANGED <<activeTab, srchVars, repVars>>
  \/ UpdateFails /\ UNCHANGED <<activeTab, srchVars, repVars>>
  \/ SetSearchTerm /\ UNCHANGED <<activeTab, salVars, repVars>>
  \/ SetSearchType /\ UNCHANGED <<activeTab, salVars, repVars>>
  \/ HandleSearch /\ UNCHANGED <<activeTab, salVars, repVars>>
  \/ SearchReturns /\ UNCHANGED <<activeTab, salVars, repVars>>
  \/ SearchFails /\ UNCHANGED <<activeTab, salVars, repVars>>
  \/ ReportsMount /\ UNCHANGED <<activeTab, salVars, srchVars>>
  \/ SetActiveReport /\ UNCHANGED <<activeTab, salVars, srchVars>>
  \/ SetSelectedMonth /\ UNCHANGED <<activeTab, salVars, srchVars>>
  \/ EmployeesSelectReturns /\ UNCHANGED <<activeTab, salVars, srchVars>>
  \/ EmployeePayReturns /\ UNCHANGED <<activeTab, salVars, srchVars>>
  \/ EmployeePayFails /\ UNCHANGED <<activeTab, salVars, srchVars>>
  \/ PayByJobTitleReturns /\ UNCHANGED <<activeTab, salVars, srchVars>>
  \/ PayByDivisionReturns /\ UNCHANGED <<activeTab, salVars, srchVars>>
  \/ AggregateFails /\ UNCHANGED <<activeTab, salVars, srchVars>>
  \/ OnTabChange

Spec == Init /\ [][Next]_vars

\* The store answers every request: a handleSubmit that waits for an answer
\* gets one.
StoreAnswers ==
  /\ WF_vars(SelectReturns /\ UNCHANGED <<activeTab, srchVars, repVars>>)
  /\ WF_vars(UpdateReturns /\ UNCHANGED <<activeTab, srchVars, repVars>>)

LiveSpec == Spec /\ StoreAnswers

\* ------------------------------------- properties of the salary adjustment
\* handleSubmit has run to its end and has set its result.
SalEnded == salPc = "idle" /\ salOutcome # NoResult

\* The nearest whole number to s * (1 + p/1000) / 100 (s in cents, p in tenths
\* of a percent), a half rounding up, stated without the code's expression.
Nearest(s, p) ==
  LET m == 1000 + p
      b == s % 100000
      r == CHOOSE n \in 0..m : 100000 * n - 50000 <= b * m /\ b * m < 100000 * n + 50000
  IN  (s \div 100000) * m + r

\* The employees whose salary lay in [min, max) when the adjustment started.
Selected0 ==
  {e \in EmpIds : salLocals.minSal * 100 <= salary0[e] /\ salary0[e] < salLocals.maxSal * 100}

\* C1: after a bulk adjustment at percentage p over [min, max) that ran to its
\* end without a store error, every employee whose salary was in the range
\* before it has salary round(old * (1 + p/100)), and every other employee's
\* salary is unchanged.
C1_AdjustmentEffect ==
  (SalEnded /\ salOutcome # ErrorResult) =>
    \A e \in EmpIds :
      salary[e] = IF e \in Selected0
                    THEN 100 * Nearest(salary0[e], salLocals.percentageIncrease)
                    ELSE salary0[e]

\* An adjustment over three selected employees ended in success and changed a salary.
C1_Witness ==
  /\ SalEnded
  /\ salOutcome.message = "Successfully updated"
  /\ Cardinality(Selected0) = 2
  /\ \E e \in Selected0 : salary[e] # salary0[e]
  /\ \E e \in EmpIds \ Selected0 : salary[e] = salary0[e]

\* The update that failed, if one did: its position k in updates (0 if none).
FailedAt ==
  IF \E j \in DOMAIN salReturned : salReturned[j].req.op = "update" /\ ~salReturned[j].ok
    THEN (CHOOSE j \in DOMAIN salReturned :
            salReturned[j].req.op = "update" /\ ~salReturned[j].ok) - 1
    ELSE 0

\* C2: if the k-th update of a bulk adjustment fails, the k-1 employees updated
\* before it keep their new salaries, the employee of the failed update and the
\* later selected ones keep their old salaries, no further update and no retry
\* is issued, and the operation ends in the error outcome.
C2_PartialFailure ==
  FailedAt > 0 =>
    LET k == FailedAt
        updates == salLocals.updates
    IN  /\ \A j \in 1..(k - 1) : salary[updates[j].emp_id] = 100 * updates[j].salary
        /\ \A j \in k..Len(updates) : salary[updates[j].emp_id] = salary0[updates[j].emp_id]
        /\ Len(salIssued) = k + 1
        /\ \A j \in 1..k : salIssued[j + 1] = UpdateReq(updates[j])
        /\ salInflight = {}
        /\ SalEnded
        /\ salOutcome = ErrorResult

\* The second of three updates failed: one employee raised, two not.
C2_Witness ==
  /\ FailedAt = 2
  /\ Len(salLocals.updates) = 3
  /\ salary[salLocals.updates[1].emp_id] # salary0[salLocals.updates[1].emp_id]

\* C3: within one bulk adjustment at most one store request is in flight: the
\* select has returned before the first update is issued, and the update of
\* the (i+1)-th selected employee is issued only after the update of the i-th
\* has returned successfully.
C3_Sequential ==
  /\ Cardinality(salInflight) <= 1
  /\ \A n \in DOMAIN salIssued :
       /\ salIssued[n] = IF n = 1 THEN SelectReq ELSE UpdateReq(salLocals.updates[n - 1])
       /\ n > 1 => /\ n - 1 <= Len(salReturned)
                   /\ salReturned[n - 1] = [req |-> salIssued[n - 1], ok |-> TRUE]
  /\ Len(salReturned) <= Len(salIssued)
  /\ salInflight = {salIssued[n] : n \in (Len(salReturned) + 1)..Len(salIssued)}

\* The third update is in flight after the select and two updates returned.
C3_Witness ==
  /\ Len(salIssued) = 4
  /\ Len(salReturned) = 3
  /\ salInflight = {UpdateReq(salLocals.updates[3])}

\* C5: a bulk adjustment whose range matches no employee (the select having
\* returned without error) issues no update, reports affected count 0 and ends
\* in the "no employees found" outcome, not the error outcome.
C5_EmptyRange ==
  (SalEnded /\ salReturned[1].ok /\ Selected0 = {}) =>
    /\ salIssued = <<SelectReq>>
    /\ salary = salary0
    /\ salOutcome.affected = 0
    /\ salOutcome = NoneFoundResult
    /\ salOutcome # ErrorResult

\* An adjustment over [58000, 105000) ended with nobody in range, one employee
\* being at exactly 105000.
C5_Witness ==
  /\ SalEnded
  /\ salReturned[1].ok
  /\ Selected0 = {}
  /\ salLocals.minSal = 58000 /\ salLocals.maxSal = 105000
  /\ salary0[3] = 10500000

\* The scenario of C6: salaries 58000, 104999 and 105000, range [58000, 105000),
\* percentage 3.2, ended without a store error.
C6_Scenario ==
  /\ SalEnded
  /\ salOutcome # ErrorResult
  /\ salary0 = (1 :> 5800000) @@ (2 :> 10499900) @@ (3 :> 10500000)
  /\ salLocals.minSal = 58000
  /\ salLocals.maxSal = 105000
  /\ salLocals.percentageIncrease = 32

\* C6: with salaries 58000, 104999 and 105000, range [58000, 105000) and
\* percentage 3.2, the first becomes 59856, the second 108359, the employee at
\* exactly 105000 is unchanged and the affected count is 2.
C6_Example ==
  C6_Scenario =>
    /\ salary = (1 :> 5985600) @@ (2 :> 10835900) @@ (3 :> 10500000)
    /\ salOutcome.affected = 2

\* The scenario of C6 has run.
C6_Witness == C6_Scenario /\ salOutcome.affected = 2

\* ------------------------------------------------ properties of the screens
\* C4: on every screen at most one store operation started from that screen is
\* in flight at any time, also when the report tab or the month is changed
\* while a report fetch is pending.
C4_OneOperationPerScreen ==
  /\ Cardinality(salInflight) <= 1
  /\ Cardinality(srchInflight) <= 1
  /\ Cardinality(repFetches) <= 1

\* A step in which a query of the search screen, or a fetch of the reports
\* screen, ends in its catch block.
SearchFailure ==
  srchEvent' = "error" /\ srchInflight' \subseteq srchInflight /\ srchInflight' # srchInflight
ReportFailure ==
  repEvent' = "error" /\ repFetches' \subseteq repFetches /\ repFetches' # repFetches

\* C7 as stated: after a search or report query failed, loading is cleared and
\* the displayed result set is empty, whatever was displayed before.
C7_FailureShowsEmpty ==
  /\ (srchEvent = "error" /\ srchInflight = {}) => (~srchLoading /\ results = {})
  /\ (repEvent = "error" /\ repFetches = {}) =>
       (~repLoading /\ payByJobTitle = <<>> /\ payByDivision = <<>>
          /\ repEmployees = {} /\ payStatements = {})

\* C7, amended: when a search or report query fails, the error is swallowed,
\* loading is cleared and the displayed result set is left as it was before
\* the failure (so it is empty only if it was empty before).
C7_FailureKeepsDisplay ==
  [][ /\ SearchFailure => (~srchLoading' /\ results' = results)
      /\ ReportFailure => (/\ ~repLoading'
                           /\ payByJobTitle' = payByJobTitle
                           /\ payByDivision' = payByDivision
                           /\ repEmployees' = repEmployees
                           /\ payStatements' = payStatements) ]_vars

\* A search failed while rows of an earlier search were displayed.
C7_Witness ==
  /\ srchEvent = "error"
  /\ srchInflight = {}
  /\ ~srchLoading
  /\ results # {}

\* The ids of the pay statements that lie within month m: period start on or
\* after its first day, period end on or before its last day.
WithinMonth(m) ==
  {PayRows[i].id : i \in {j \in DOMAIN PayRows :
      PayRows[j].pay_period_start >= FirstDay[m] /\ PayRows[j].pay_period_end <= LastDay(m)}}

RowIds(rows) == {rows[i].id : i \in DOMAIN rows}

\* C8: for a selected month M the aggregation is over exactly the pay
\* statements that lie within M, in every client time zone.
C8_MonthFilter ==
  /\ repTitleSrc # NoSrc => RowIds(repTitleSrc.rows) = WithinMonth(repTitleSrc.month)
  /\ repDivisionSrc # NoSrc => RowIds(repDivisionSrc.rows) = WithinMonth(repDivisionSrc.month)

\* The sum of a sequence of numbers.
RECURSIVE SumSeq(_)
SumSeq(seq) == IF Len(seq) = 0 THEN 0 ELSE Head(seq) + SumSeq(Tail(seq))

Conserved(groups, rows) ==
  /\ SumSeq([i \in DOMAIN groups |-> groups[i].total_pay]) =
       SumSeq([i \in DOMAIN rows |-> rows[i].gross_pay])
  /\ SumSeq([i \in DOMAIN groups |-> groups[i].employee_count]) = Len(rows)

\* C9: the job-title aggregation, and likewise the division aggregation,
\* conserves totals: the total_pay of the groups add up to the gross_pay of the
\* fetched statements, and the employee_count of the groups add up to the
\* number of fetched rows.
C9_Conservation ==
  /\ repTitleSrc # NoSrc => Conserved(payByJobTitle, repTitleSrc.rows)
  /\ repDivisionSrc # NoSrc => Conserved(payByDivision, repDivisionSrc.rows)

\* term occurs in s as a substring, letters compared without case.
Contains(s, term) ==
  \E i \in 1..(Len(s) - Len(term) + 1) :
    \A j \in 1..Len(term) : Lower(s[i + j - 1]) = Lower(term[j])

\* C10: search by name returns exactly the employees whose first name or last
\* name contains the term as a substring, compared without case, for every
\* non-blank term.
C10_NameSearch ==
  srchAsked.type = "name" =>
    results = {e \in EmpIds : Contains(first_name[e], srchAsked.term)
                                \/ Contains(last_name[e], srchAsked.term)}

\* C11: search by identity number returns only the employees whose ssn equals
\* the term exactly (no substring, no case folding), and never more than one
\* record.
C11_SsnSearch ==
  srchAsked.type = "ssn" =>
    /\ results = {e \in EmpIds : ssn[e] = srchAsked.term}
    /\ Cardinality(results) <= 1

\* A search by ssn for "1" found employee 1 alone, although the ssn of
\* employee 2 contains "1".
C11_Witness ==
  /\ srchAsked = [type |-> "ssn", term |-> <<"1">>]
  /\ results = {1}
  /\ srchEvent = "rows"

\* The position of the first character of a term that is not a space.
FirstNonSpace(term) ==
  IF \A i \in DOMAIN term : term[i] = " " THEN Len(term) + 1
  ELSE CHOOSE i \in DOMAIN term : term[i] # " " /\ \A j \in 1..(i - 1) : term[j] = " "

\* The term is made of decimal digits only.
IsInteger(term) == Len(term) > 0 /\ \A i \in DOMAIN term : term[i] \in DOMAIN Digits

\* The term has decimal digits right after its leading spaces.
HasLeadingInt(term) ==
  FirstNonSpace(term) <= Len(term) /\ term[FirstNonSpace(term)] \in DOMAIN Digits

\* The last position of the run of digits that starts at FirstNonSpace(term).
LastDigit(term) ==
  CHOOSE j \in FirstNonSpace(term)..Len(term) :
    /\ \A i \in FirstNonSpace(term)..j : term[i] \in DOMAIN Digits
    /\ j < Len(term) => term[j + 1] \notin DOMAIN Digits

RECURSIVE Pow10(_)
Pow10(n) == IF n = 0 THEN 1 ELSE 10 * Pow10(n - 1)

\* The number spelled by a run of digits.
Spelled(term, from, to) ==
  SumSeq([i \in 1..(to - from + 1) |-> Digits[term[from + i - 1]] * Pow10(to - from + 1 - i)])

UpdateIssuedFor(e) ==
  \E n \in DOMAIN salIssued : salIssued[n].op = "update" /\ salIssued[n].emp_id = e

\* Some store call of the running adjustment returned an error.
SomeCallFailed == \E n \in DOMAIN salReturned : ~salReturned[n].ok

\* C13: once a bulk adjustment is submitted, nothing the user does (leaving
\* the screen, editing the form) aborts it: unless a store call fails, an
\* update is eventually issued for every selected employee.
C13_NoAbort ==
  (salPc = "select") ~> (SomeCallFailed \/ \A e \in Selected0 : UpdateIssuedFor(e))

\* The screen was left while the adjustment ran, and the update of the last
\* of two selected employees was issued after that.
C13_Witness ==
  /\ activeTab = "employees"
  /\ ~salAttached
  /\ salPc = "update"
  /\ Cardinality(Selected0) = 2
  /\ \A e \in Selected0 : UpdateIssuedFor(e)
  /\ Len(salReturned) = 2

\* ------------------------------------------------ properties of the reports

\* The position in rows of the first row whose key is k.
FirstPos(rows, keyOf, k) ==
  CHOOSE n \in DOMAIN rows :
    /\ keyOf[rows[n].emp_id] = k
    /\ \A m \in 1..(n - 1) : keyOf[rows[m].emp_id] # k

\* The groups are listed in the order in which their keys are first met in
\* the fetched rows.
FirstEncounterOrder(groups, rows, keyOf) ==
  \A i, j \in DOMAIN groups :
    i < j => FirstPos(rows, keyOf, groups[i].key) < FirstPos(rows, keyOf, groups[j].key)

\* C14 as stated: the report groups appear in first-encounter order of their
\* key, whatever the key strings are.
C14_FirstEncounterOrder ==
  /\ repTitleSrc # NoSrc => FirstEncounterOrder(payByJobTitle, repTitleSrc.rows, job_title)
  /\ repDivisionSrc # NoSrc => FirstEncounterOrder(payByDivision, repDivisionSrc.rows, division)

\* The groups whose key is an array index come first, by ascending number;
\* the other groups follow in first-encounter order of their key.
IndexKeysFirst(groups, rows, keyOf) ==
  \A i, j \in DOMAIN groups :
    i < j =>
      LET a == groups[i].key
          b == groups[j].key
      IN  IF a \in DOMAIN IndexKeys
            THEN b \in DOMAIN IndexKeys => IndexKeys[a] < IndexKeys[b]
            ELSE /\ b \notin DOMAIN IndexKeys
                 /\ FirstPos(rows, keyOf, a) < FirstPos(rows, keyOf, b)

\* C14, amended: groups whose key is an integer-like string come first, in
\* ascending numeric order of the key; the groups of the other keys follow in
\* first-encounter order.
C14_IndexKeysFirst ==
  /\ repTitleSrc # NoSrc => IndexKeysFirst(payByJobTitle, repTitleSrc.rows, job_title)
  /\ repDivisionSrc # NoSrc => IndexKeysFirst(payByDivision, repDivisionSrc.rows, division)

\* Divisions "10", "7" and "Sales" were met in that order and are listed as
\* "7", "10", "Sales".
C14_Witness ==
  /\ repDivisionSrc # NoSrc
  /\ Len(payByDivision) = 3
  /\ payByDivision[1].key = "7"
  /\ payByDivision[2].key = "10"
  /\ payByDivision[3].key = "Sales"
  /\ FirstPos(repDivisionSrc.rows, division, "10") < FirstPos(repDivisionSrc.rows, division, "7")

\* The two render conditions of the Reports screen.
LoadingShown == activeTab = "reports" /\ repLoading

NoDataShown ==
  /\ activeTab = "reports"
  /\ ~repLoading
  /\ \/ activeReport = "pay-by-title" /\ Len(payByJobTitle) = 0
     \/ activeReport = "pay-by-division" /\ Len(payByDivision) = 0

\* The groups displayed for a report.
GroupsOf(report) == IF report = "pay-by-title" THEN payByJobTitle ELSE payByDivision

\* C15: on the aggregate views "no data" and the loading state are never shown
\* together, and "no data" is shown only when a fetch for the active report
\* has returned and left zero groups, never before the first fetch for that
\* view has returned.
C15_NoDataAfterFetch ==
  /\ ~(NoDataShown /\ LoadingShown)
  /\ NoDataShown => (activeReport \in repReturned /\ Len(GroupsOf(activeReport)) = 0)

\* The fetch whose answer is displayed for a report.
SrcOf(report) == IF report = "pay-by-title" THEN repTitleSrc ELSE repDivisionSrc

\* C16: when every fetch succeeds, whenever no fetch is in flight the displayed
\* job-title (or division) aggregate is the one of the most recently selected
\* month, in whatever order the answers came.
C16_LatestMonthShown ==
  (/\ activeTab = "reports"
   /\ repStarted > 0
   /\ repFetches = {}
   /\ ~repFailed
   /\ activeReport \in {"pay-by-title", "pay-by-division"})
  => SrcOf(activeReport).month = selectedMonth

\* -------------------------------- further properties of the salary adjustment

\* The employees whose salary the running or last adjustment has written.
Written ==
  {salReturned[n].req.emp_id :
     n \in {m \in DOMAIN salReturned : salReturned[m].req.op = "update" /\ salReturned[m].ok}}

\* C17: when a bulk adjustment ends (with success, with zero matches or with
\* an error) the affected count it reports is the number of employees whose
\* salary it wrote to the store.
C17_AffectedCount ==
  SalEnded => salOutcome.affected = Cardinality(Written)

\* C18: a bulk adjustment with a percentage in [0, 100] never lowers a salary
\* and never makes one negative, whatever the stored salary, fractional ones
\* included; at 0 percent every salary stays as it was.
C18_NeverLowers ==
  \A e \in EmpIds :
    /\ salary[e] >= 0
    /\ salary[e] >= salary0[e]
    /\ (e \in Written /\ salLocals.percentageIncrease = 0) => salary[e] = salary0[e]

\* C19: on the Reports screen the loading flag is true in every state in
\* which a report fetch is in flight; it is false only when none is pending.
C19_LoadingWhilePending == repFetches # {} => repLoading

====
